---- MODULE Spec2Model ----
(***************************************************************************)
(* Model of the Legend AWS CDK installer (installers/aws-cdk-eks).         *)
(*                                                                         *)
(* The program is a graph builder.  The app entry point constructs two     *)
(* stacks (LegendSecretsStack, LegendEKSStack); LegendEKSStack constructs  *)
(* LegendPlatform, which declares Kubernetes manifests on the cluster and  *)
(* dependency edges between them.  The declared graph is then evaluated by *)
(* the provisioning engine, which materializes a node only once every node *)
(* it depends on is materialized, and otherwise in any order.              *)
(*                                                                         *)
(* Construction is modelled statement by statement (pc), evaluation by the *)
(* action Materialize.  Strings that the code only compares are TLA+       *)
(* strings; ingress paths, which are inspected character by character, are *)
(* sequences of one-character strings.                                     *)
(*                                                                         *)
(* Left out of the node set, because no modelled property reads them and   *)
(* they are independent of every modelled node but the cluster: the charts *)
(* AWSLoadBalancerController, ClusterAutoscaler, KubePrometheusStack and   *)
(* their two service accounts.                                             *)
(***************************************************************************)
EXTENDS Integers, Sequences, FiniteSets, TLC

VARIABLES
    pc,            \* position of the construction code / "deploy" / "aborted"
    i,             \* loop index of the statement group pc names
    docdbCluster,  \* props.docdbCluster: the database handle ([secret, clusterEndpoint])
    decl,          \* the literals the constructor writes its documents from:
                   \* [paths: the ingress path rules, volumes: the deployments' volumes]
    nodes,         \* declared graph nodes: id -> [stack, kind]
    manifests,     \* declared Kubernetes manifests: id -> manifest document
    deps,          \* declared edges <<a, b>>: a depends on b
    stackDeps,     \* declared stack edges <<s, t>>: stack s depends on stack t
    materialized,  \* nodes the provisioning engine has materialized
    failed,        \* nodes whose materialization the backend has refused
    call           \* the arguments of a createSecretProviderClass call made on its own
                   \* (SpecBind), undefined while the app runs

vars == <<pc, i, docdbCluster, decl, nodes, manifests, deps, stackDeps, materialized,
          failed, call>>

\* JavaScript undefined (an optional argument or property that is absent)
None == "undefined"

\* JavaScript truthiness of an optional string: undefined and '' are falsy
Truthy(s) == s # None /\ s # ""

Range(s) == {s[k] : k \in DOMAIN s}

-----------------------------------------------------------------------------
(* Names *)

namespace == "legend"

SecretsStack == "LegendSecretsStack"
EKSStack == "LegendEKSStack"
ClusterId == "LegendEKSCluster"

\* Secret.fromSecretNameV2(...).secretArn: the ARN built from the secret's name
SecretArn(secretName) == "arn:secret:" \o secretName

-----------------------------------------------------------------------------
(* LegendSecretsStack: one secret per value, all encrypted under one key *)

SecretsKeyId == "LegendSecretsKey"

VaultSecrets ==
    << [id |-> "LegendDomainNameSecret",     secretName |-> "legend/domainName"],
       [id |-> "LegendCertificateArnSecret", secretName |-> "legend/certificateArn"],
       [id |-> "LegendGitLabAppIdSecret",    secretName |-> "legend/gitlabAppId"],
       [id |-> "LegendGitLabAppSecret",      secretName |-> "legend/gitlabAppSecret"],
       [id |-> "LegendGrafanaAdminSecret",   secretName |-> "legend/grafanaAdminPassword"] >>

SecretsStackNodes ==
    (SecretsKeyId :> [stack |-> SecretsStack, kind |-> "Key"])
    @@ [id \in {VaultSecrets[k].id : k \in DOMAIN VaultSecrets}
            |-> [stack |-> SecretsStack, kind |-> "Secret"]]

\* encryptionKey: secretsKey makes every secret reference the key
SecretsStackDeps == {<<VaultSecrets[k].id, SecretsKeyId>> : k \in DOMAIN VaultSecrets}

-----------------------------------------------------------------------------
(* LegendEKSStack: infrastructure declared before LegendPlatform *)

DocdbId == "LegendDocDBCluster"

\* docdb.Credentials.fromGeneratedSecret('legend'): the cluster owns its master secret
DocdbSecretName == "LegendDocDBCluster/Secret"

EKSInfraNodes ==
    [id \in {"LegendClusterKmsKey", "LegendVpc", ClusterId, "LegendNodeGroup", "DocDBSG",
             DocdbId, "SecretsStoreCSISA", "SecretsStoreCsiDriver",
             "SecretsStoreCsiAwsProvider"}
        |-> [stack |-> EKSStack,
             kind  |-> CASE id = "LegendClusterKmsKey" -> "Key"
                         [] id = "LegendVpc" -> "Vpc"
                         [] id = ClusterId -> "Cluster"
                         [] id = "LegendNodeGroup" -> "Nodegroup"
                         [] id = "DocDBSG" -> "SecurityGroup"
                         [] id = DocdbId -> "DatabaseCluster"
                         [] id = "SecretsStoreCSISA" -> "ServiceAccount"
                         [] OTHER -> "HelmChart"]]

\* Edges the constructor arguments declare: a resource built from another one's
\* attributes (vpc, secretsEncryptionKey, nodegroup.nodeRole, securityGroups,
\* serviceAccountName) or added to the cluster (addNodegroupCapacity,
\* addServiceAccount, addHelmChart) depends on it.
EKSInfraDeps ==
    { <<ClusterId, "LegendVpc">>, <<ClusterId, "LegendClusterKmsKey">>,
      <<"LegendNodeGroup", ClusterId>>,
      <<"DocDBSG", "LegendVpc">>, <<"DocDBSG", "LegendNodeGroup">>,
      <<DocdbId, "LegendVpc">>, <<DocdbId, "DocDBSG">>,
      <<"SecretsStoreCSISA", ClusterId>>,
      <<"SecretsStoreCsiDriver", ClusterId>>,
      <<"SecretsStoreCsiAwsProvider", ClusterId>>,
      <<"SecretsStoreCsiAwsProvider", "SecretsStoreCSISA">> }

\* The props LegendEKSStack hands to LegendPlatform: the five imported secrets
PlatformSecretArns ==
    [ domainNameSecret     |-> SecretArn(VaultSecrets[1].secretName),
      certificateArnSecret |-> SecretArn(VaultSecrets[2].secretName),
      gitlabAppIdSecret    |-> SecretArn(VaultSecrets[3].secretName),
      gitlabAppSecret      |-> SecretArn(VaultSecrets[4].secretName),
      grafanaAdminSecret   |-> SecretArn(VaultSecrets[5].secretName) ]

\* The database handles LegendPlatformProps admits: docdb.DatabaseCluster.secret is
\* optional (present with generated credentials, absent otherwise).
DatabaseHandles ==
    { [secret |-> s, clusterEndpoint |-> [hostname |-> "docdb.cluster.local", port |-> 27017]]
        : s \in {DocdbSecretName, None} }

-----------------------------------------------------------------------------
(* LegendPlatform: the documents it declares *)

NamespaceManifest ==
    [apiVersion |-> "v1", kind |-> "Namespace", metadata |-> [name |-> namespace]]

\* JSON.stringify: the serialised text, represented by the value it encodes
JSONStringify(v) == [json |-> v]

\* The jmesPath list createSecretProviderClass builds from its optional arguments
JmesPath(k8sSecretKey, secretProperty, alternateProperty, alternateKey) ==
    LET first == IF Truthy(secretProperty)
                 THEN <<[path |-> secretProperty, objectAlias |-> k8sSecretKey]>>
                 ELSE <<[path |-> ".", objectAlias |-> k8sSecretKey]>>
    IN  IF Truthy(alternateProperty) /\ Truthy(alternateKey)
        THEN Append(first, [path |-> alternateProperty, objectAlias |-> alternateKey])
        ELSE first

\* createSecretProviderClass: the id and the document handed to cluster.addManifest
createSecretProviderClass(idSuffix, ns, secretArn, k8sSecretName, k8sSecretKey, secretProperty, alternateProperty, alternateKey) ==
    LET jmesPath == JmesPath(k8sSecretKey, secretProperty, alternateProperty, alternateKey)
    IN  [ id |-> "SecretProviderClass-" \o idSuffix,
          manifest |->
            [ apiVersion |-> "secrets-store.csi.x-k8s.io/v1",
              kind |-> "SecretProviderClass",
              metadata |-> [name |-> idSuffix, namespace |-> ns],
              spec |->
                [ provider |-> "aws",
                  parameters |->
                    [objects |-> JSONStringify(
                        << [ objectName |-> secretArn,
                             objectType |-> "secretsmanager",
                             jmesPath   |-> jmesPath ] >>)],
                  secretObjects |->
                    << [ secretName |-> k8sSecretName,
                         type |-> "Opaque",
                         data |-> [k \in DOMAIN jmesPath |->
                                      [ objectName |-> jmesPath[k].objectAlias,
                                        key        |-> jmesPath[k].objectAlias ]] ] >> ] ] ]

\* A copy-paste slip: the GitLab secret is synced into the GitLab id's target secret
SpcCalls_sharedTarget ==
    << [idSuffix |-> "domain-spc", secretArn |-> PlatformSecretArns.domainNameSecret,
        k8sSecretName |-> "legend-domain-secret", k8sSecretKey |-> "LEGEND_DOMAIN"],
       [idSuffix |-> "cert-spc", secretArn |-> PlatformSecretArns.certificateArnSecret,
        k8sSecretName |-> "legend-certificate-secret", k8sSecretKey |-> "LEGEND_CERT_ARN"],
       [idSuffix |-> "gitlab-id-spc", secretArn |-> PlatformSecretArns.gitlabAppIdSecret,
        k8sSecretName |-> "legend-gitlab-id-secret", k8sSecretKey |-> "GITLAB_APP_ID"],
       [idSuffix |-> "gitlab-secret-spc", secretArn |-> PlatformSecretArns.gitlabAppSecret,
        k8sSecretName |-> "legend-gitlab-id-secret", k8sSecretKey |-> "GITLAB_APP_SECRET"],
       [idSuffix |-> "grafana-spc", secretArn |-> PlatformSecretArns.grafanaAdminSecret,
        k8sSecretName |-> "legend-grafana-secret", k8sSecretKey |-> "GRAFANA_ADMIN_PASSWORD"] >>

\* The arguments of the five calls made before the database check
SpcCalls ==
    << [idSuffix |-> "domain-spc", secretArn |-> PlatformSecretArns.domainNameSecret,
        k8sSecretName |-> "legend-domain-secret", k8sSecretKey |-> "LEGEND_DOMAIN"],
       [idSuffix |-> "cert-spc", secretArn |-> PlatformSecretArns.certificateArnSecret,
        k8sSecretName |-> "legend-certificate-secret", k8sSecretKey |-> "LEGEND_CERT_ARN"],
       [idSuffix |-> "gitlab-id-spc", secretArn |-> PlatformSecretArns.gitlabAppIdSecret,
        k8sSecretName |-> "legend-gitlab-id-secret", k8sSecretKey |-> "GITLAB_APP_ID"],
       [idSuffix |-> "gitlab-secret-spc", secretArn |-> PlatformSecretArns.gitlabAppSecret,
        k8sSecretName |-> "legend-gitlab-secret", k8sSecretKey |-> "GITLAB_APP_SECRET"],
       [idSuffix |-> "grafana-spc", secretArn |-> PlatformSecretArns.grafanaAdminSecret,
        k8sSecretName |-> "legend-grafana-secret", k8sSecretKey |-> "GRAFANA_ADMIN_PASSWORD"] >>

SingleSpc(k) ==
    createSecretProviderClass(SpcCalls[k].idSuffix, namespace, SpcCalls[k].secretArn,
                              SpcCalls[k].k8sSecretName, SpcCalls[k].k8sSecretKey,
                              None, None, None)

\* docdbCluster.secret.secretArn
DocdbSecretArn(db) == SecretArn(db.secret)

DocdbSpc(db) ==
    createSecretProviderClass("docdb-spc", namespace, DocdbSecretArn(db),
                              "legend-docdb-secret", "DOCDB_PASSWORD",
                              "password", "username", "DOCDB_USERNAME")

\* The check left out
DocdbSecretMissing_never(db) == FALSE

\* if (!docdbCluster.secret) throw ...
DocdbSecretMissing(db) == ~Truthy(db.secret)

\* The ids of the six bindings a deployment is made to depend on
AllSpcIds ==
    {SingleSpc(k).id : k \in DOMAIN SpcCalls} \cup {"SecretProviderClass-docdb-spc"}

\* { name, valueFrom: { secretKeyRef: { name, key } } }
EnvRef(name, secretName, key) ==
    [name |-> name, valueFrom |-> [secretKeyRef |-> [name |-> secretName, key |-> key]]]

\* { name, value }
EnvValue(name, value) ==
    [name |-> name, value |-> value]

\* A slip in one reference: DOCDB_USER reads key 'username', which no binding syncs
commonEnv_wrongKey(db) ==
    << EnvRef("LEGEND_DOMAIN", "legend-domain-secret", "LEGEND_DOMAIN"),
       EnvRef("GITLAB_APP_ID", "legend-gitlab-id-secret", "GITLAB_APP_ID"),
       EnvRef("GITLAB_APP_SECRET", "legend-gitlab-secret", "GITLAB_APP_SECRET"),
       EnvValue("DOCDB_HOST", db.clusterEndpoint.hostname),
       EnvValue("DOCDB_PORT", ToString(db.clusterEndpoint.port)),
       EnvValue("DOCDB_NAME", "legend"),
       EnvRef("DOCDB_USER", "legend-docdb-secret", "username"),
       EnvRef("DOCDB_PASS", "legend-docdb-secret", "DOCDB_PASSWORD") >>

commonEnv(db) ==
    << EnvRef("LEGEND_DOMAIN", "legend-domain-secret", "LEGEND_DOMAIN"),
       EnvRef("GITLAB_APP_ID", "legend-gitlab-id-secret", "GITLAB_APP_ID"),
       EnvRef("GITLAB_APP_SECRET", "legend-gitlab-secret", "GITLAB_APP_SECRET"),
       EnvValue("DOCDB_HOST", db.clusterEndpoint.hostname),
       EnvValue("DOCDB_PORT", ToString(db.clusterEndpoint.port)),
       EnvValue("DOCDB_NAME", "legend"),
       EnvRef("DOCDB_USER", "legend-docdb-secret", "DOCDB_USERNAME"),
       EnvRef("DOCDB_PASS", "legend-docdb-secret", "DOCDB_PASSWORD") >>

\* The (volume suffix, secretProviderClass, mount directory) triples of makeDeployment
DeploymentVolumes ==
    << [vol |-> "-domain-vol",       spc |-> "domain-spc",        dir |-> "/domain"],
       [vol |-> "-cert-vol",         spc |-> "cert-spc",          dir |-> "/cert"],
       [vol |-> "-gitlabid-vol",     spc |-> "gitlab-id-spc",     dir |-> "/gitlab-id"],
       [vol |-> "-gitlabsecret-vol", spc |-> "gitlab-secret-spc", dir |-> "/gitlab-secret"],
       [vol |-> "-grafana-vol",      spc |-> "grafana-spc",       dir |-> "/grafana"],
       [vol |-> "-docdb-vol",        spc |-> "docdb-spc",         dir |-> "/docdb"] >>

\* makeDeployment; env is the commonEnv the closure captures, volumes the list its
\* volumes and volumeMounts literals are written from
makeDeployment(appName, image, port, env, volumes) ==
    [ apiVersion |-> "apps/v1",
      kind |-> "Deployment",
      metadata |-> [name |-> appName, namespace |-> namespace],
      spec |->
        [ replicas |-> 2,
          selector |-> [matchLabels |-> [app |-> appName]],
          template |->
            [ metadata |-> [labels |-> [app |-> appName]],
              spec |->
                [ volumes |->
                    [k \in DOMAIN volumes |->
                        [ name |-> appName \o volumes[k].vol,
                          csi  |-> [ driver |-> "secrets-store.csi.k8s.io",
                                     readOnly |-> TRUE,
                                     volumeAttributes |->
                                        [secretProviderClass |-> volumes[k].spc] ] ]],
                  containers |->
                    << [ name |-> appName,
                         image |-> image,
                         imagePullPolicy |-> "Always",
                         ports |-> <<[containerPort |-> port]>>,
                         env |-> env,
                         volumeMounts |->
                            [k \in DOMAIN volumes |->
                                [ name |-> appName \o volumes[k].vol,
                                  mountPath |-> ("/mnt/" \o appName) \o volumes[k].dir,
                                  readOnly |-> TRUE ]] ] >> ] ] ] ]

makeService(appName, port) ==
    [ apiVersion |-> "v1",
      kind |-> "Service",
      metadata |-> [name |-> appName, namespace |-> namespace],
      spec |-> [ selector |-> [app |-> appName],
                 ports |-> <<[port |-> port, targetPort |-> port]>>,
                 type |-> "ClusterIP" ] ]

components ==
    << [name |-> "legend-engine",      image |-> "finos/legend-engine-server:latest",         port |-> 6300],
       [name |-> "legend-sdlc",        image |-> "finos/legend-sdlc-server:latest",           port |-> 6100],
       [name |-> "legend-studio",      image |-> "finos/legend-studio:latest",                port |-> 9000],
       [name |-> "legend-query",       image |-> "finos/legend-query:latest",                 port |-> 9001],
       [name |-> "legend-pure-ide",    image |-> "finos/legend-engine-pure-ide-light:latest", port |-> 9200],
       [name |-> "legend-depot",       image |-> "finos/legend-depot-server:latest",          port |-> 6200],
       [name |-> "legend-depot-store", image |-> "finos/legend-depot-store-server:latest",    port |-> 6201] >>

DeployId(comp) == comp.name \o "-deploy"
SvcId(comp) == comp.name \o "-svc"

\* The database binding left out of the dependency list
DeploymentDeps_noDocdb(comp) ==
    {<<DeployId(comp), d>> : d \in ({"LegendNamespace"} \cup AllSpcIds)
                                      \ {"SecretProviderClass-docdb-spc"}}

\* dplManifest.node.addDependency(ns, domainSpc, certSpc, gitlabIdSpc, gitlabSecretSpc,
\*                                grafanaSpc, docdbSpc)
DeploymentDeps(comp) ==
    {<<DeployId(comp), d>> : d \in {"LegendNamespace"} \cup AllSpcIds}

\* The dependency added in both directions
ServiceDeps_cycle(comp) == {<<SvcId(comp), DeployId(comp)>>, <<DeployId(comp), SvcId(comp)>>}

\* svcManifest.node.addDependency(dplManifest)
ServiceDeps(comp) == {<<SvcId(comp), DeployId(comp)>>}

-----------------------------------------------------------------------------
(* Ingress and network policy *)

\* One element of spec.rules[0].http.paths; path is the path string, one character
\* per element
PathRule(path, serviceName, port) ==
    [ path |-> path, pathType |-> "Prefix",
      backend |-> [service |-> [name |-> serviceName, port |-> [number |-> port]]] ]

\* The depot store routed under the depot: '/depot/store/*' for '/depot-store/*'
IngressPaths_nested ==
    << PathRule(<<"/", "e", "n", "g", "i", "n", "e", "/", "*">>,
                "legend-engine", 6300),
       PathRule(<<"/", "s", "d", "l", "c", "/", "*">>,
                "legend-sdlc", 6100),
       PathRule(<<"/", "s", "t", "u", "d", "i", "o", "/", "*">>,
                "legend-studio", 9000),
       PathRule(<<"/", "q", "u", "e", "r", "y", "/", "*">>,
                "legend-query", 9001),
       PathRule(<<"/", "i", "d", "e", "/", "*">>,
                "legend-pure-ide", 9200),
       PathRule(<<"/", "d", "e", "p", "o", "t", "/", "*">>,
                "legend-depot", 6200),
       PathRule(<<"/", "d", "e", "p", "o", "t", "/", "s", "t", "o", "r", "e", "/", "*">>,
                "legend-depot-store", 6201) >>

\* A copied line left unedited: the depot store rule keeps the depot's port 6200
IngressPaths_wrongPort ==
    << PathRule(<<"/", "e", "n", "g", "i", "n", "e", "/", "*">>,
                "legend-engine", 6300),
       PathRule(<<"/", "s", "d", "l", "c", "/", "*">>,
                "legend-sdlc", 6100),
       PathRule(<<"/", "s", "t", "u", "d", "i", "o", "/", "*">>,
                "legend-studio", 9000),
       PathRule(<<"/", "q", "u", "e", "r", "y", "/", "*">>,
                "legend-query", 9001),
       PathRule(<<"/", "i", "d", "e", "/", "*">>,
                "legend-pure-ide", 9200),
       PathRule(<<"/", "d", "e", "p", "o", "t", "/", "*">>,
                "legend-depot", 6200),
       PathRule(<<"/", "d", "e", "p", "o", "t", "-", "s", "t", "o", "r", "e", "/", "*">>,
                "legend-depot-store", 6200) >>

\* The paths of the LegendIngress literal: '/engine/*', '/sdlc/*', '/studio/*',
\* '/query/*', '/ide/*', '/depot/*', '/depot-store/*'
IngressPaths ==
    << PathRule(<<"/", "e", "n", "g", "i", "n", "e", "/", "*">>,
                "legend-engine", 6300),
       PathRule(<<"/", "s", "d", "l", "c", "/", "*">>,
                "legend-sdlc", 6100),
       PathRule(<<"/", "s", "t", "u", "d", "i", "o", "/", "*">>,
                "legend-studio", 9000),
       PathRule(<<"/", "q", "u", "e", "r", "y", "/", "*">>,
                "legend-query", 9001),
       PathRule(<<"/", "i", "d", "e", "/", "*">>,
                "legend-pure-ide", 9200),
       PathRule(<<"/", "d", "e", "p", "o", "t", "/", "*">>,
                "legend-depot", 6200),
       PathRule(<<"/", "d", "e", "p", "o", "t", "-", "s", "t", "o", "r", "e", "/", "*">>,
                "legend-depot-store", 6201) >>

\* The LegendIngress document over a list of path rules
LegendIngress(paths) ==
    [ apiVersion |-> "networking.k8s.io/v1",
      kind |-> "Ingress",
      metadata |->
        [ name |-> "legend-ingress",
          namespace |-> namespace,
          annotations |->
            [ class |-> "alb", scheme |-> "internet-facing",
              listenPorts |-> "[{\"HTTP\":80,\"HTTPS\":443}]",
              certificateArn |-> "{{REPLACE_WITH_YOUR_CERT_ARN}}",
              sslRedirect |-> "443" ] ],
      spec |-> [rules |-> << [ host |-> "{{REPLACE_WITH_DOMAIN_NAME}}",
                               http |-> [paths |-> paths] ] >>] ]

LegendNetworkPolicy ==
    [ apiVersion |-> "networking.k8s.io/v1",
      kind |-> "NetworkPolicy",
      metadata |-> [name |-> "legend-deny-all-except-alb", namespace |-> namespace],
      spec |-> [ podSelector |-> <<>>,
                 policyTypes |-> <<"Ingress">>,
                 ingress |-> << [from |-> << [ipBlock |-> [cidr |-> "vpc.vpcCidrBlock"]] >>] >> ] ]

\* The dependency left out
NetworkPolicyDeps_none == {}

\* networkPolicy.node.addDependency(ingress)
NetworkPolicyDeps == {<<"LegendNetworkPolicy", "LegendIngress">>}

\* A path string split at '/' into its elements
RECURSIVE SplitPath(_, _, _)
SplitPath(s, cur, acc) ==
    IF s = <<>> THEN Append(acc, cur)
    ELSE IF Head(s) = "/" THEN SplitPath(Tail(s), <<>>, Append(acc, cur))
    ELSE SplitPath(Tail(s), Append(cur, Head(s)), acc)

\* pathType 'Prefix': the path elements a request must start with; empty elements
\* and the trailing wildcard element '*' constrain nothing
PathPrefix(path) ==
    LET els  == SelectSeq(SplitPath(path, <<>>, <<>>), LAMBDA e : e # <<>>)
    IN  IF els # <<>> /\ els[Len(els)] = <<"*">> THEN SubSeq(els, 1, Len(els) - 1) ELSE els

IsPrefixOf(a, b) == Len(a) <= Len(b) /\ SubSeq(b, 1, Len(a)) = a

\* Two rules overlap when the prefix of one is a prefix of the other's
Overlap(r1, r2) ==
    \/ IsPrefixOf(PathPrefix(r1.path), PathPrefix(r2.path))
    \/ IsPrefixOf(PathPrefix(r2.path), PathPrefix(r1.path))

-----------------------------------------------------------------------------
(* The state machine: construction, then evaluation of the declared graph *)

EmptyFn == [x \in {} |-> x]

\* cluster.addManifest / addHelmChart: the resource is applied to the cluster
ClusterScopeDeps(id) == {<<id, ClusterId>>}

\* The stack dependency left out
EntryStackDeps_none == {}

\* eksStack.addDependency(secretsStack)
EntryStackDeps == {<<EKSStack, SecretsStack>>}

ManifestNode(id) == id :> [stack |-> EKSStack, kind |-> "KubernetesManifest"]

Init ==
    /\ pc = "app"
    /\ i = 1
    /\ docdbCluster \in DatabaseHandles
    /\ decl = [paths |-> IngressPaths, volumes |-> DeploymentVolumes]
    /\ nodes = EmptyFn
    /\ manifests = EmptyFn
    /\ deps = {}
    /\ stackDeps = {}
    /\ materialized = {}
    /\ failed = {}
    /\ call = None

\* new LegendSecretsStack(app, 'LegendSecretsStack')
NewLegendSecretsStack ==
    /\ pc = "app"
    /\ nodes' = nodes @@ SecretsStackNodes
    /\ deps' = deps \cup SecretsStackDeps
    /\ pc' = "eks"
    /\ UNCHANGED <<i, docdbCluster, decl, manifests, stackDeps, materialized, failed, call>>

\* new LegendEKSStack(...), up to the call of new LegendPlatform(...)
NewLegendEKSStack ==
    /\ pc = "eks"
    /\ nodes' = nodes @@ EKSInfraNodes
    /\ deps' = deps \cup EKSInfraDeps
    /\ pc' = "ns"
    /\ UNCHANGED <<i, docdbCluster, decl, manifests, stackDeps, materialized, failed, call>>

\* const ns = cluster.addManifest('LegendNamespace', ...)
AddNamespace ==
    /\ pc = "ns"
    /\ nodes' = nodes @@ ManifestNode("LegendNamespace")
    /\ manifests' = manifests @@ ("LegendNamespace" :> NamespaceManifest)
    /\ deps' = deps \cup ClusterScopeDeps("LegendNamespace")
    /\ pc' = "spc"
    /\ i' = 1
    /\ UNCHANGED <<docdbCluster, decl, stackDeps, materialized, failed, call>>

\* the i-th of the five createSecretProviderClass calls for single-value secrets
AddSecretProviderClass ==
    /\ pc = "spc"
    /\ LET spc == SingleSpc(i)
       IN  /\ nodes' = nodes @@ ManifestNode(spc.id)
           /\ manifests' = manifests @@ (spc.id :> spc.manifest)
           /\ deps' = deps \cup ClusterScopeDeps(spc.id)
    /\ IF i < Len(SpcCalls) THEN pc' = "spc" /\ i' = i + 1
                            ELSE pc' = "docdb" /\ i' = 1
    /\ UNCHANGED <<docdbCluster, decl, stackDeps, materialized, failed, call>>

\* throw new Error('DocumentDB cluster has no master secret...'): synthesis fails
ThrowNoMasterSecret ==
    /\ pc = "docdb"
    /\ DocdbSecretMissing(docdbCluster)
    /\ pc' = "aborted"
    /\ UNCHANGED <<i, docdbCluster, decl, nodes, manifests, deps, stackDeps, materialized, failed, call>>

\* const docdbSpc = this.createSecretProviderClass(cluster, 'docdb-spc', ...); the
\* document embeds docdbCluster.secret.secretArn, a reference to the database's secret
AddDocdbSpc ==
    /\ pc = "docdb"
    /\ ~DocdbSecretMissing(docdbCluster)
    /\ LET spc == DocdbSpc(docdbCluster)
       IN  /\ nodes' = nodes @@ ManifestNode(spc.id)
           /\ manifests' = manifests @@ (spc.id :> spc.manifest)
           /\ deps' = deps \cup ClusterScopeDeps(spc.id) \cup {<<spc.id, DocdbId>>}
    /\ pc' = "components"
    /\ i' = 1
    /\ UNCHANGED <<docdbCluster, decl, stackDeps, materialized, failed, call>>

\* one iteration of: for (const comp of components) { ... }
AddComponent ==
    /\ pc = "components"
    /\ LET comp == components[i]
       IN  /\ nodes' = nodes @@ ManifestNode(DeployId(comp)) @@ ManifestNode(SvcId(comp))
           /\ manifests' = manifests
                @@ (DeployId(comp) :> makeDeployment(comp.name, comp.image, comp.port,
                                                  commonEnv(docdbCluster), decl.volumes))
                @@ (SvcId(comp) :> makeService(comp.name, comp.port))
           /\ deps' = deps \cup ClusterScopeDeps(DeployId(comp)) \cup ClusterScopeDeps(SvcId(comp))
                           \cup DeploymentDeps(comp) \cup ServiceDeps(comp)
    /\ IF i < Len(components) THEN pc' = "components" /\ i' = i + 1
                              ELSE pc' = "ingress" /\ i' = 1
    /\ UNCHANGED <<docdbCluster, decl, stackDeps, materialized, failed, call>>

\* const ingress = cluster.addManifest('LegendIngress', ...)
AddIngress ==
    /\ pc = "ingress"
    /\ nodes' = nodes @@ ManifestNode("LegendIngress")
    /\ manifests' = manifests @@ ("LegendIngress" :> LegendIngress(decl.paths))
    /\ deps' = deps \cup ClusterScopeDeps("LegendIngress")
    /\ pc' = "netpol"
    /\ UNCHANGED <<i, docdbCluster, decl, stackDeps, materialized, failed, call>>

\* const networkPolicy = cluster.addManifest('LegendNetworkPolicy', ...);
\* networkPolicy.node.addDependency(ingress); the document embeds vpc.vpcCidrBlock
AddNetworkPolicy ==
    /\ pc = "netpol"
    /\ nodes' = nodes @@ ManifestNode("LegendNetworkPolicy")
    /\ manifests' = manifests @@ ("LegendNetworkPolicy" :> LegendNetworkPolicy)
    /\ deps' = deps \cup ClusterScopeDeps("LegendNetworkPolicy") \cup NetworkPolicyDeps
                    \cup {<<"LegendNetworkPolicy", "LegendVpc">>}
    /\ pc' = "entry"
    /\ UNCHANGED <<i, docdbCluster, decl, stackDeps, materialized, failed, call>>

\* eksStack.addDependency(secretsStack); the app is then synthesized and deployed
AddStackDependency ==
    /\ pc = "entry"
    /\ stackDeps' = stackDeps \cup EntryStackDeps
    /\ pc' = "deploy"
    /\ UNCHANGED <<i, docdbCluster, decl, nodes, manifests, deps, materialized, failed, call>>

\* A node may be materialized once every node it depends on is, and every node of
\* every stack its stack depends on
Ready(n) ==
    /\ \A e \in deps : e[1] = n => e[2] \in materialized
    /\ \A se \in stackDeps :
          se[1] = nodes[n].stack =>
              \A m \in DOMAIN nodes : nodes[m].stack = se[2] => m \in materialized

\* The provisioning engine materializes one ready node
Materialize(n) ==
    /\ pc = "deploy"
    /\ n \notin materialized
    /\ n \notin failed
    /\ Ready(n)
    /\ materialized' = materialized \cup {n}
    /\ UNCHANGED <<pc, i, docdbCluster, decl, nodes, manifests, deps, stackDeps, failed, call>>

Next ==
    \/ NewLegendSecretsStack
    \/ NewLegendEKSStack
    \/ AddNamespace
    \/ AddSecretProviderClass
    \/ ThrowNoMasterSecret
    \/ AddDocdbSpc
    \/ AddComponent
    \/ AddIngress
    \/ AddNetworkPolicy
    \/ AddStackDependency
    \/ \E n \in DOMAIN nodes : Materialize(n)

Spec == Init /\ [][Next]_vars

-----------------------------------------------------------------------------
(* Evaluation with backend failures *)

\* The most materializations the backend refuses in one deployment
MaxFailures == 1

\* The nodes whose materialization is let fail: a vault secret, the namespace, a
\* binding, the secret-sync driver chart, a deployment and the ingress
FailureSites ==
    { "LegendGitLabAppSecret", "LegendNamespace", "SecretProviderClass-docdb-spc",
      "SecretsStoreCsiDriver", "legend-engine-deploy", "LegendIngress" }

\* The provisioning engine attempts a ready node and the backend refuses it: the
\* node stays unmaterialized and is not attempted again (no retries)
Fail(n) ==
    /\ pc = "deploy"
    /\ n \in FailureSites
    /\ n \notin materialized
    /\ n \notin failed
    /\ Cardinality(failed) < MaxFailures
    /\ Ready(n)
    /\ failed' = failed \cup {n}
    /\ UNCHANGED <<pc, i, docdbCluster, decl, nodes, manifests, deps, stackDeps, materialized, call>>

NextFail ==
    \/ Next
    \/ \E n \in DOMAIN nodes : Fail(n)

SpecFail == Init /\ [][NextFail]_vars

-----------------------------------------------------------------------------
(* The same constructor over other declaration literals.  The constructor hands *)
(* its literals to cluster.addManifest as they are written: SpecRouting and     *)
(* SpecMounts run the same actions from declarations that differ from the       *)
(* source's in one ingress path, respectively one omitted volume.               *)

\* Two workloads claiming '/engine/*' and '/engine/admin/*'
OverlappingPaths ==
    [IngressPaths EXCEPT ![2].path = <<"/", "e", "n", "g", "i", "n", "e", "/",
                                       "a", "d", "m", "i", "n", "/", "*">>]

\* Deployments that do not mount the database binding
VolumesWithoutDocdb == SelectSeq(DeploymentVolumes, LAMBDA v : v.spc # "docdb-spc")

InitDeclared(pathChoices, volumeChoices) ==
    /\ pc = "app"
    /\ i = 1
    /\ docdbCluster \in DatabaseHandles
    /\ decl \in [paths : pathChoices, volumes : volumeChoices]
    /\ nodes = EmptyFn
    /\ manifests = EmptyFn
    /\ deps = {}
    /\ stackDeps = {}
    /\ materialized = {}
    /\ failed = {}
    /\ call = None

InitRouting == InitDeclared({IngressPaths, OverlappingPaths}, {DeploymentVolumes})

InitMounts == InitDeclared({IngressPaths}, {DeploymentVolumes, VolumesWithoutDocdb})

SpecRouting == InitRouting /\ [][Next]_vars

SpecMounts == InitMounts /\ [][Next]_vars

-----------------------------------------------------------------------------
(* Views of the declared graph used by the properties *)

Declared(kind) == {id \in DOMAIN manifests : manifests[id].kind = kind}

Spcs == Declared("SecretProviderClass")

Deployments == Declared("Deployment")

\* The secret records a binding reads
SourcesOf(m) ==
    {m.spec.parameters.objects.json[k].objectName : k \in DOMAIN m.spec.parameters.objects.json}

\* The synced secrets a binding writes
TargetNamesOf(m) == {m.spec.secretObjects[k].secretName : k \in DOMAIN m.spec.secretObjects}

\* The keys a binding writes into the synced secret called name
KeysOf(m, name) ==
    UNION { {m.spec.secretObjects[k].data[j].key : j \in DOMAIN m.spec.secretObjects[k].data}
              : k \in {k2 \in DOMAIN m.spec.secretObjects :
                          m.spec.secretObjects[k2].secretName = name} }

\* The (name, key) references of a deployment's environment variables
EnvRefsOf(d) ==
    UNION { {c.env[k].valueFrom.secretKeyRef :
                k \in {k2 \in DOMAIN c.env : "valueFrom" \in DOMAIN c.env[k2]}}
              : c \in Range(d.spec.template.spec.containers) }

\* Deployment d mounts binding b: a volume of d names b, and every container of d
\* has a volumeMount for that volume
Mounts(d, b) ==
    \E v \in Range(d.spec.template.spec.volumes) :
        /\ v.csi.volumeAttributes.secretProviderClass = b.metadata.name
        /\ \A c \in Range(d.spec.template.spec.containers) :
              \E vm \in Range(c.volumeMounts) : vm.name = v.name

\* The bindings deployment d mounts
MountedSpcs(d) == {b \in Spcs : Mounts(d, manifests[b])}

-----------------------------------------------------------------------------
(* Properties *)

\* C1. Secret isolation: every generated binding reads exactly one secret record
\* and writes exactly one synced secret; no two bindings share a target secret
\* name or a source record; once all six bindings are declared there are six
\* distinct source records and six distinct target secret names; and the only
\* target holding more than one key is the database credential's, whose two keys
\* (username, password) come from the one database record.
SecretIsolation ==
    /\ \A b \in Spcs : /\ Cardinality(SourcesOf(manifests[b])) = 1
                       /\ Cardinality(TargetNamesOf(manifests[b])) = 1
    /\ \A a, b \in Spcs :
          a # b => /\ TargetNamesOf(manifests[a]) \cap TargetNamesOf(manifests[b]) = {}
                   /\ SourcesOf(manifests[a]) \cap SourcesOf(manifests[b]) = {}
    /\ \A b \in Spcs : \A t \in TargetNamesOf(manifests[b]) :
          Cardinality(KeysOf(manifests[b], t)) > 1 =>
              /\ t = "legend-docdb-secret"
              /\ KeysOf(manifests[b], t) = {"DOCDB_USERNAME", "DOCDB_PASSWORD"}
              /\ SourcesOf(manifests[b]) = {SecretArn(DocdbSecretName)}
    /\ pc \in {"components", "ingress", "netpol", "entry", "deploy"} =>
          /\ Cardinality(Spcs) = 6
          /\ Cardinality(UNION {SourcesOf(manifests[b]) : b \in Spcs}) = 6
          /\ Cardinality(UNION {TargetNamesOf(manifests[b]) : b \in Spcs}) = 6

\* C1 witness: all six bindings are declared, the two-key database one among them
SixBindingsDeclared ==
    /\ Cardinality(Spcs) = 6
    /\ \E b \in Spcs : Cardinality(KeysOf(manifests[b], "legend-docdb-secret")) = 2

\* C2. Env/mount consistency: for every declared deployment, every environment
\* variable that references a (secret name, key) pair is served by a generated
\* binding that syncs that key into that secret, and the deployment mounts that
\* binding (a volume naming it, and a volumeMount for the volume).
EnvMountConsistency ==
    \A d \in Deployments : \A ref \in EnvRefsOf(manifests[d]) :
        \E b \in Spcs : /\ ref.key \in KeysOf(manifests[b], ref.name)
                        /\ Mounts(manifests[d], manifests[b])

\* C2 witness: all seven deployments are declared and one with environment
\* references has been materialized
SevenDeploymentsDeclared ==
    /\ Cardinality(Deployments) = 7
    /\ \E d \in Deployments : d \in materialized /\ EnvRefsOf(manifests[d]) # {}

\* C3. Workload precondition: a materialized deployment has its namespace and every
\* binding it mounts (all six) materialized, and each of these orderings is a
\* declared edge of the deployment.
WorkloadPrecondition ==
    \A d \in Deployments :
        /\ Cardinality(MountedSpcs(manifests[d])) = 6
        /\ \A t \in {"LegendNamespace"} \cup MountedSpcs(manifests[d]) :
              /\ <<d, t>> \in deps
              /\ d \in materialized => t \in materialized

\* C3 witness: a deployment has been materialized
DeploymentMaterialized == \E d \in Deployments : d \in materialized

\* C4. Namespace first: whenever a manifest placed in the namespace is
\* materialized, the namespace manifest is materialized.
NamespaceFirst ==
    \A id \in DOMAIN manifests :
        (/\ id \in materialized
         /\ "namespace" \in DOMAIN manifests[id].metadata
         /\ manifests[id].metadata.namespace = manifests["LegendNamespace"].metadata.name)
            => "LegendNamespace" \in materialized

\* C5. Cross-component ordering: a materialized binding has the vault secret it
\* reads materialized; the cluster is materialized only after every node of the
\* secrets stack; every materialized manifest or chart has the cluster materialized.
CrossComponentOrdering ==
    /\ \A b \in Spcs : b \in materialized =>
          \A k \in DOMAIN VaultSecrets :
              SecretArn(VaultSecrets[k].secretName) \in SourcesOf(manifests[b])
                  => VaultSecrets[k].id \in materialized
    /\ ClusterId \in materialized =>
          \A n \in DOMAIN nodes : nodes[n].stack = SecretsStack => n \in materialized
    /\ \A n \in materialized :
          nodes[n].kind \in {"KubernetesManifest", "HelmChart"} => ClusterId \in materialized

\* C5 witness: a binding of a vault secret and a chart have been materialized
BindingAndChartMaterialized ==
    /\ "SecretProviderClass-domain-spc" \in materialized
    /\ "SecretsStoreCsiDriver" \in materialized

\* C6. Routing before network policy: the network policy is declared with an edge
\* to the ingress, and is materialized only after the ingress.
RoutingBeforePolicy ==
    "LegendNetworkPolicy" \in DOMAIN nodes =>
        /\ <<"LegendNetworkPolicy", "LegendIngress">> \in deps
        /\ "LegendNetworkPolicy" \in materialized => "LegendIngress" \in materialized

\* C6 witness: the network policy has been materialized
PolicyMaterialized == "LegendNetworkPolicy" \in materialized

\* The routing rules of the declared ingress
RoutingRules == UNION {Range(r.http.paths) : r \in Range(manifests["LegendIngress"].spec.rules)}

\* C7. Routing disjointness: no two distinct rules of the generated ingress have
\* prefixes of which one is a prefix of the other, and no prefix is used twice.
RoutingDisjoint ==
    "LegendIngress" \in DOMAIN manifests =>
        LET paths == manifests["LegendIngress"].spec.rules[1].http.paths
        IN  \A a, b \in DOMAIN paths :
                a # b => /\ ~Overlap(paths[a], paths[b])
                         /\ paths[a].path # paths[b].path

\* C7 witness: the ingress with its seven rules is declared
IngressDeclared ==
    /\ "LegendIngress" \in DOMAIN manifests
    /\ Cardinality(RoutingRules) = 7

\* Two of the declared path rules overlap
DeclaredPathsOverlap ==
    \E a, b \in DOMAIN decl.paths : a # b /\ Overlap(decl.paths[a], decl.paths[b])

GeneratedBindings ==
    {SingleSpc(k).manifest : k \in DOMAIN SpcCalls} \cup {DocdbSpc(docdbCluster).manifest}

\* An environment variable references a pair whose binding the declared volumes
\* do not mount
DeclaredEnvUnmounted ==
    \E k \in DOMAIN commonEnv(docdbCluster) :
        LET e == commonEnv(docdbCluster)[k]
        IN  /\ "valueFrom" \in DOMAIN e
            /\ ~\E b \in GeneratedBindings :
                  /\ e.valueFrom.secretKeyRef.key \in KeysOf(b, e.valueFrom.secretKeyRef.name)
                  /\ \E v \in Range(decl.volumes) : v.spc = b.metadata.name

MissingCredentialFatal ==
    docdbCluster.secret = None =>
        /\ pc \in {"app", "eks", "ns", "spc", "docdb", "aborted"}
        /\ "SecretProviderClass-docdb-spc" \notin DOMAIN manifests
        /\ \A id \in DOMAIN manifests :
              manifests[id].kind \notin {"Deployment", "Service", "Ingress", "NetworkPolicy"}
        /\ materialized = {}

\* C10 witness: construction has aborted on a handle without a secret
ConstructionAborted == pc = "aborted" /\ docdbCluster.secret = None

-----------------------------------------------------------------------------
(* Properties of evaluation with failures *)

\* The nodes that depend directly on a node of S: by a declared edge, or by a
\* declared edge between their stacks
DependentsOf(S) ==
    {e[1] : e \in {e2 \in deps : e2[2] \in S}}
    \cup {n \in DOMAIN nodes :
            \E se \in stackDeps : /\ nodes[n].stack = se[1]
                                  /\ \E m \in S : nodes[m].stack = se[2]}

\* S and every node with a declared path to a node of S
RECURSIVE Downstream(_)
Downstream(S) ==
    LET T == S \cup DependentsOf(S)
    IN  IF T = S THEN S ELSE Downstream(T)

\* No node can be materialized any more
Quiescent == pc = "deploy" /\ \A n \in DOMAIN nodes : ~ENABLED Materialize(n)

\* C11. Fail-fast propagation: a node with a declared path to a failed node is
\* never attempted (neither materialized nor failed); when nothing more can be
\* materialized, every node with no declared path to a failed node has been
\* materialized; in particular a failed binding keeps every deployment and service
\* from being attempted, while the ingress and the network policy have no path to
\* it.
FailFastPropagation ==
    failed # {} =>
        /\ (Downstream(failed) \ failed) \cap (materialized \cup failed) = {}
        /\ Quiescent => materialized = DOMAIN nodes \ Downstream(failed)
        /\ failed \cap Spcs # {} =>
              /\ \A id \in Declared("Deployment") \cup Declared("Service") :
                    id \notin materialized \cup failed
              /\ failed \subseteq Spcs =>
                    {"LegendIngress", "LegendNetworkPolicy"} \cap Downstream(failed) = {}

\* C11 witness: a binding has failed, and the ingress and the network policy have
\* been materialized all the same
PolicyMaterializedAfterBindingFailed ==
    /\ failed \cap Spcs # {}
    /\ {"LegendIngress", "LegendNetworkPolicy"} \subseteq materialized
    /\ Quiescent

\* C12. No literal environment values: every environment variable of every
\* declared deployment is resolved through a secretKeyRef and none has a value.
NoLiteralEnv ==
    \A d \in Deployments : \A c \in Range(manifests[d].spec.template.spec.containers) :
        \A k \in DOMAIN c.env : /\ "valueFrom" \in DOMAIN c.env[k]
                                /\ "value" \notin DOMAIN c.env[k]

\* C13. Secret-sync driver before bindings: a materialized binding, and a
\* materialized deployment (each mounts bindings), has the secret-sync driver
\* chart materialized.
DriverBeforeBindings ==
    \A id \in materialized :
        id \in Spcs \cup Deployments => "SecretsStoreCsiDriver" \in materialized

-----------------------------------------------------------------------------
(* createSecretProviderClass called on its own, over a range of arguments *)

\* The argument lists tried: both target keys free, each optional argument absent
\* (undefined), empty or given
BindCalls ==
    [ idSuffix : {"docdb-spc"},
      secretArn : {SecretArn(DocdbSecretName)},
      k8sSecretName : {"legend-docdb-secret"},
      k8sSecretKey : {"DOCDB_PASSWORD", "DOCDB_USERNAME"},
      secretProperty : {None, "", "password", "username"},
      alternateProperty : {None, "", "password", "username"},
      alternateKey : {None, "", "DOCDB_PASSWORD", "DOCDB_USERNAME"} ]

InitBind ==
    /\ pc = "bind"
    /\ i = 1
    /\ docdbCluster \in {db \in DatabaseHandles : db.secret # None}
    /\ decl = [paths |-> IngressPaths, volumes |-> DeploymentVolumes]
    /\ nodes = EmptyFn
    /\ manifests = EmptyFn
    /\ deps = {}
    /\ stackDeps = {}
    /\ materialized = {}
    /\ failed = {}
    /\ call \in BindCalls

\* this.createSecretProviderClass(cluster, idSuffix, namespace, ...)
CallCreateSecretProviderClass ==
    /\ pc = "bind"
    /\ LET spc == createSecretProviderClass(call.idSuffix, namespace, call.secretArn,
                      call.k8sSecretName, call.k8sSecretKey, call.secretProperty,
                      call.alternateProperty, call.alternateKey)
       IN  /\ nodes' = nodes @@ ManifestNode(spc.id)
           /\ manifests' = manifests @@ (spc.id :> spc.manifest)
           /\ deps' = deps \cup ClusterScopeDeps(spc.id)
    /\ pc' = "bound"
    /\ UNCHANGED <<i, docdbCluster, decl, stackDeps, materialized, failed, call>>

NextBind == CallCreateSecretProviderClass

SpecBind == InitBind /\ [][NextBind]_vars

\* The field map of a binding: its (source property, target key) entries
FieldMapOf(m) == m.spec.parameters.objects.json[1].jmesPath

\* C14. Field-map shape: the binding a call returns has, for a single opaque value
\* (no property given, no alternate pair), exactly one entry mapping '.' to the
\* target key; for the two-property credential (property, alternate property and
\* alternate key given), exactly two entries, one per property; in every case
\* pairwise distinct target keys; and a synced secret that lists exactly the field
\* map's target keys, in order.
FieldMapShape ==
    pc = "bound" =>
        \A b \in Spcs :
            LET fm   == FieldMapOf(manifests[b])
                data == manifests[b].spec.secretObjects[1].data
            IN  /\ (~Truthy(call.secretProperty)
                     /\ ~(Truthy(call.alternateProperty) /\ Truthy(call.alternateKey)))
                      => fm = <<[path |-> ".", objectAlias |-> call.k8sSecretKey]>>
                /\ (Truthy(call.secretProperty) /\ Truthy(call.alternateProperty)
                     /\ Truthy(call.alternateKey))
                      => /\ Len(fm) = 2
                         /\ fm[1].path = call.secretProperty
                         /\ fm[2].path = call.alternateProperty
                /\ \A j, k \in DOMAIN fm : j # k => fm[j].objectAlias # fm[k].objectAlias
                /\ Len(manifests[b].spec.secretObjects) = 1
                /\ DOMAIN data = DOMAIN fm
                /\ \A k \in DOMAIN fm : data[k].key = fm[k].objectAlias

-----------------------------------------------------------------------------
(* Routing targets and completion *)

Services == Declared("Service")

\* The rules of the declared ingress that target the service named name
RulesTargeting(name) ==
    LET paths == manifests["LegendIngress"].spec.rules[1].http.paths
    IN  {k \in DOMAIN paths : paths[k].backend.service.name = name}

\* C15. Routing targets match workloads: every rule of the generated ingress
\* targets a declared service by its name and one of its ports, the port its
\* deployment's container listens on, and each of the seven declared services is
\* the target of exactly one rule.
RoutingTargetsMatch ==
    "LegendIngress" \in DOMAIN manifests =>
        /\ Len(manifests["LegendIngress"].spec.rules) = 1
        /\ \A r \in RoutingRules :
              \E sv \in Services :
                  /\ manifests[sv].metadata.name = r.backend.service.name
                  /\ \E p \in Range(manifests[sv].spec.ports) :
                        p.port = r.backend.service.port.number
                  /\ \E d \in Deployments :
                        /\ manifests[d].metadata.name = r.backend.service.name
                        /\ \E c \in Range(manifests[d].spec.template.spec.containers) :
                              \E cp \in Range(c.ports) :
                                  cp.containerPort = r.backend.service.port.number
        /\ Cardinality(Services) = 7
        /\ \A sv \in Services : Cardinality(RulesTargeting(manifests[sv].metadata.name)) = 1

\* C15 witness: the ingress is materialized next to the seven declared services
IngressMaterializedWithServices ==
    /\ "LegendIngress" \in materialized
    /\ Cardinality(Services) = 7
    /\ Cardinality(RoutingRules) = 7

\* The engine keeps materializing while some node is ready
SpecLive == Init /\ [][Next]_vars /\ WF_vars(\E n \in DOMAIN nodes : Materialize(n))

\* No node has a declared path to itself
Acyclic == \A n \in DOMAIN nodes : n \notin Downstream(DependentsOf({n}))

AllMaterialized == pc = "deploy" /\ materialized = DOMAIN nodes

\* C16. Acyclic graph and completion: the graph handed to the engine has no
\* cycle; while a declared node is unmaterialized some node can be materialized
\* (no deadlock); and under fairness, with no backend failure, every declared node
\* is eventually materialized.
GraphCompletes ==
    /\ []((pc = "deploy" /\ materialized = {}) => Acyclic)
    /\ []((pc = "deploy" /\ materialized # DOMAIN nodes)
            => \E n \in DOMAIN nodes \ materialized : Ready(n))
    /\ (pc = "deploy") ~> AllMaterialized

\* C16 witness: every declared node has been materialized, the last of them a
\* service, which comes after its deployment, the namespace and the six bindings
EveryNodeMaterialized ==
    /\ AllMaterialized
    /\ Cardinality(Services) = 7
    /\ failed = {}

====
